---- MODULE Spec2Model ----
(***************************************************************************)
(* Model of examples/bots/server/src/process_json.rs: the public message   *)
(* dispatcher (process_public_json) and the directory-backed script store  *)
(* (load_script, save_script, script_list).                                *)
(*                                                                         *)
(* A text (a script name, a script, a path component, a file's content) is *)
(* a sequence of characters; a character is a one-character string, and a  *)
(* JSON object key is written as one word ("name", "script").              *)
(***************************************************************************)
EXTENDS Integers, Sequences, FiniteSets, TLC

VARIABLES
  dirKind,    \* what "scripts/" is: "dir", "file" or "absent"
  entries,    \* the named entries of scripts/: entry name -> content
  nfill,      \* further entries of scripts/, named s1 .. s<nfill>
  outside,    \* files the store wrote outside scripts/: [at, key] -> content
  last,       \* the last call into the module: request, store call, result
  count0,     \* history: entries of scripts/ when the run began
  saved,      \* history: the names, other than s<i>, whose save succeeded
  nsaved,     \* history: how many saves succeeded
  lastSave,   \* history: the latest successful save and what its file held before
  pc,         \* per concurrent caller: "idle", "counted"
  req         \* per concurrent caller: the save in progress and its count fc

vars == <<dirKind, entries, nfill, outside, last, count0, saved, nsaved, lastSave, pc, req>>

(***************************************************************************)
(* Option and Result.                                                      *)
(***************************************************************************)
None == [t |-> "none"]
Some(x) == [t |-> "some", x |-> x]
Ok(x) == [t |-> "ok", x |-> x]
Err(e) == [t |-> "err", e |-> e]

\* failure::err_msg(text); the text is the sequence of the pieces format! joins
err_msg(text) == [k |-> "msg", text |-> text]
\* std::io::Error converted by `?`
IoError(kind) == [k |-> "io", kind |-> kind]
\* serde_json::Error converted by `?`
JsonError(kind) == [k |-> "json", kind |-> kind]

(***************************************************************************)
(* serde_json::Value, as far as the messages of the model use it.          *)
(***************************************************************************)
JNull == [j |-> "null"]
JNum(n) == [j |-> "num", n |-> n]
JStr(s) == [j |-> "str", s |-> s]
JObj(f) == [j |-> "obj", f |-> f]
JArr(a, more) == [j |-> "arr", a |-> a, more |-> more]

RECURSIVE Digits(_)
Digits(n) ==
  LET d == <<"0", "1", "2", "3", "4", "5", "6", "7", "8", "9">>
  IN IF n < 10 THEN <<d[n + 1]>> ELSE Digits(n \div 10) \o <<d[(n % 10) + 1]>>

RECURSIVE Escape(_)
Escape(s) ==
  IF s = <<>> THEN <<>>
  ELSE (IF Head(s) \in {"\"", "\\"} THEN <<"\\", Head(s)>> ELSE <<Head(s)>>)
       \o Escape(Tail(s))

\* the keys of a JSON object in the order serde_json's map keeps them (sorted)
KeyOrder == <<"name", "script">>

RECURSIVE to_string(_)
RECURSIVE MembersToString(_, _, _)
MembersToString(f, i, first) ==
  IF i > Len(KeyOrder) THEN <<>>
  ELSE IF KeyOrder[i] \notin DOMAIN f THEN MembersToString(f, i + 1, first)
  ELSE (IF first THEN <<>> ELSE <<",">>)
       \o <<"\"", KeyOrder[i], "\"", ":">> \o to_string(f[KeyOrder[i]])
       \o MembersToString(f, i + 1, FALSE)

\* <Value as Display>::to_string: the compact JSON text of a value
to_string(v) ==
  CASE v.j = "null" -> <<"n", "u", "l", "l">>
    [] v.j = "num" -> Digits(v.n)
    [] v.j = "str" -> <<"\"">> \o Escape(v.s) \o <<"\"">>
    [] v.j = "obj" -> <<"{">> \o MembersToString(v.f, 1, TRUE) \o <<"}">>

(***************************************************************************)
(* serde_json::from_str, on the texts the model stores: blanks, decimal    *)
(* digits, '+', letters, and strings with the escapes \" and \\.           *)
(***************************************************************************)
IsDigit(c) == c \in {"0", "1", "2", "3", "4", "5", "6", "7", "8", "9"}
DigitValue(c) == CHOOSE n \in 0..9 : Digits(n) = <<c>>
IsBlank(c) == c \in {" ", "\n", "\t", "\r"}

RECURSIVE SkipBlanks(_)
SkipBlanks(s) ==
  IF s # <<>> /\ IsBlank(Head(s)) THEN SkipBlanks(Tail(s)) ELSE s

\* the digits after the first one: [n: the number so far, rest: the text left]
RECURSIVE ParseDigits(_, _)
ParseDigits(n, s) ==
  IF s # <<>> /\ IsDigit(Head(s))
  THEN ParseDigits(10 * n + DigitValue(Head(s)), Tail(s))
  ELSE [ok |-> TRUE, v |-> JNum(n), rest |-> s]

\* the characters of a string after its opening quote
RECURSIVE ParseStr(_, _)
ParseStr(acc, s) ==
  IF s = <<>> THEN [ok |-> FALSE, kind |-> "EofWhileParsingString"]
  ELSE IF Head(s) = "\"" THEN [ok |-> TRUE, v |-> JStr(acc), rest |-> Tail(s)]
  ELSE IF Head(s) = "\\"
    THEN IF Len(s) >= 2 /\ s[2] \in {"\"", "\\"}
         THEN ParseStr(Append(acc, s[2]), Tail(Tail(s)))
         ELSE [ok |-> FALSE, kind |-> "InvalidEscape"]
  ELSE ParseStr(Append(acc, Head(s)), Tail(s))

ParseValue(s) ==
  IF s = <<>> THEN [ok |-> FALSE, kind |-> "EofWhileParsingValue"]
  ELSE IF Head(s) = "0"
    THEN IF Len(s) >= 2 /\ IsDigit(s[2])
         THEN [ok |-> FALSE, kind |-> "InvalidNumber"]
         ELSE [ok |-> TRUE, v |-> JNum(0), rest |-> Tail(s)]
  ELSE IF IsDigit(Head(s)) THEN ParseDigits(DigitValue(Head(s)), Tail(s))
  ELSE IF Head(s) = "\"" THEN ParseStr(<<>>, Tail(s))
  ELSE IF Len(s) >= 4 /\ SubSeq(s, 1, 4) = <<"n", "u", "l", "l">>
    THEN [ok |-> TRUE, v |-> JNull, rest |-> SubSeq(s, 5, Len(s))]
  ELSE [ok |-> FALSE, kind |-> "ExpectedSomeValue"]

\* serde_json::from_str::<Value>: one value, blanks around it, nothing after it
from_str(text) ==
  LET r == ParseValue(SkipBlanks(text))
  IN IF ~r.ok THEN Err(JsonError(r.kind))
     ELSE IF SkipBlanks(r.rest) # <<>> THEN Err(JsonError("TrailingCharacters"))
     ELSE Ok(r.v)

(***************************************************************************)
(* The file system under the working directory.  A store st is the record  *)
(* [dirKind, entries, nfill, outside] of the variables of the same names.  *)
(* The entries s1 .. s<nfill> of scripts/ all hold FillText and are kept   *)
(* as their number; a request names one only to create the next of them.   *)
(***************************************************************************)
MaxScripts == 500

ScriptsDir == <<"s", "c", "r", "i", "p", "t", "s">>
FillText == <<"1">>
FillName(i) == <<"s">> \o Digits(i)

\* the i of a name s<i>, 0 for any other name
FillIndex(key) ==
  IF Len(key) >= 2 /\ Head(key) = "s" /\ IsDigit(key[2]) /\ key[2] # "0"
  THEN LET r == ParseDigits(DigitValue(key[2]), Tail(Tail(key)))
       IN IF r.rest = <<>> THEN r.v.n ELSE 0
  ELSE 0

Store == [dirKind |-> dirKind, entries |-> entries, nfill |-> nfill, outside |-> outside]

\* format!("scripts/{}", name)
ScriptPath(name) == ScriptsDir \o <<"/">> \o name

\* the components of a path, split at every '/'
RECURSIVE Split(_, _)
Split(path, cur) ==
  IF path = <<>> THEN <<cur>>
  ELSE IF Head(path) = "/" THEN <<cur>> \o Split(Tail(path), <<>>)
  ELSE Split(Tail(path), Append(cur, Head(path)))

\* the parent of a directory; the directories above the working directory
\* are not told apart
Up(at) == IF at = "scripts" THEN "cwd" ELSE "above"

HasFile(st, at, key) ==
  IF at = "scripts"
  THEN key \in DOMAIN st.entries \/ FillIndex(key) \in 1..st.nfill
  ELSE [at |-> at, key |-> key] \in DOMAIN st.outside

FileText(st, at, key) ==
  IF at = "scripts"
  THEN IF key \in DOMAIN st.entries THEN st.entries[key] ELSE FillText
  ELSE st.outside[[at |-> at, key |-> key]]

\* The kernel's walk along the components of a path, from directory `at`:
\* [ok, isDir, at, key], or [ok |-> FALSE, kind] when a component is missing
\* or is no directory.
RECURSIVE Walk(_, _, _)
Walk(st, comps, at) ==
  IF comps = <<>> THEN [ok |-> TRUE, isDir |-> TRUE, at |-> at, key |-> <<>>]
  ELSE LET c == Head(comps)
           rest == Tail(comps)
       IN IF c = <<>> \/ c = <<".">> THEN Walk(st, rest, at)
          ELSE IF c = <<".", ".">> THEN Walk(st, rest, Up(at))
          ELSE IF at = "cwd" /\ c = ScriptsDir
            THEN IF st.dirKind = "dir" THEN Walk(st, rest, "scripts")
                 ELSE IF st.dirKind = "absent" THEN [ok |-> FALSE, kind |-> "NotFound"]
                 ELSE [ok |-> FALSE, kind |-> "NotADirectory"]
          ELSE IF rest = <<>>
            THEN [ok |-> TRUE, isDir |-> FALSE, at |-> at, key |-> c]
          ELSE IF HasFile(st, at, c) THEN [ok |-> FALSE, kind |-> "NotADirectory"]
          ELSE [ok |-> FALSE, kind |-> "NotFound"]

Resolve(st, path) == Walk(st, Split(path, <<>>), "cwd")

\* util::load_string(file_name): File::open, read_to_string
load_string(st, path) ==
  LET r == Resolve(st, path)
  IN IF ~r.ok THEN Err(IoError(r.kind))
     ELSE IF r.isDir THEN Err(IoError("IsADirectory"))
     ELSE IF ~HasFile(st, r.at, r.key) THEN Err(IoError("NotFound"))
     ELSE Ok(FileText(st, r.at, r.key))

\* the store after the file `key` of directory `at` is created or truncated
\* and `text` written to it
PutFile(st, at, key, text) ==
  IF at = "scripts"
  THEN IF FillIndex(key) = st.nfill + 1 /\ text = FillText
       THEN [st EXCEPT !.nfill = st.nfill + 1]
       ELSE [st EXCEPT !.entries =
               [k \in DOMAIN st.entries \cup {key} |->
                  IF k = key THEN text ELSE st.entries[k]]]
  ELSE LET f == [at |-> at, key |-> key]
       IN [st EXCEPT !.outside =
             [k \in DOMAIN st.outside \cup {f} |->
                IF k = f THEN text ELSE st.outside[k]]]

\* util::write_string(file_name, text): File::create, write
write_string(st, path, text) ==
  LET r == Resolve(st, path)
  IN IF ~r.ok THEN [res |-> Err(IoError(r.kind)), st |-> st]
     ELSE IF r.isDir THEN [res |-> Err(IoError("IsADirectory")), st |-> st]
     ELSE [res |-> Ok(Len(text)), st |-> PutFile(st, r.at, r.key, text)]

\* fs::read_dir(tbdir)?.count()
read_dir_count(st) ==
  IF st.dirKind = "dir" THEN Ok(Cardinality(DOMAIN st.entries) + st.nfill)
  ELSE IF st.dirKind = "absent" THEN Err(IoError("NotFound"))
  ELSE Err(IoError("NotADirectory"))

\* the number of entries of the backing directory
Count(st) == Cardinality(DOMAIN st.entries) + st.nfill

(***************************************************************************)
(* The script store.                                                       *)
(***************************************************************************)
ServerResponse(what, content) == [what |-> what, content |-> content]

\* load_script handing the stored text on without parsing it
load_script_unparsed(st, name) ==
  LET text == load_string(st, ScriptPath(name))
  IN IF text.t = "err" THEN Err(text.e)
     ELSE Ok(ServerResponse("script", JStr(text.x)))

\* load_script answering null for a text that does not parse
load_script_lenient(st, name) ==
  LET text == load_string(st, ScriptPath(name))
  IN IF text.t = "err" THEN Err(text.e)
     ELSE LET content == from_str(text.x)
          IN IF content.t = "err" THEN Ok(ServerResponse("script", JNull))
             ELSE Ok(ServerResponse("script", content.x))

load_script(st, name) ==
  LET text == load_string(st, ScriptPath(name))
  IN IF text.t = "err" THEN Err(text.e)
     ELSE LET content == from_str(text.x)
          IN IF content.t = "err" THEN Err(content.e)
             ELSE Ok(ServerResponse("script", content.x))

\* save_script with the capacity test off by one
SaveCountedInclusive(st, fc, name, script) ==
  IF fc <= MaxScripts
  THEN LET w == write_string(st, ScriptPath(name), script)
       IN IF w.res.t = "err" THEN [res |-> Err(w.res.e), st |-> st]
          ELSE [res |-> Ok(ServerResponse("script written!", JNull)), st |-> w.st]
  ELSE [res |-> Err(err_msg(<<"too many scripts, can't save!">>)), st |-> st]

\* save_script refusing to write over a stored script
SaveCountedCreateNew(st, fc, name, script) ==
  IF fc < MaxScripts
  THEN LET w == write_string(st, ScriptPath(name), script)
       IN IF load_string(st, ScriptPath(name)).t = "ok"
          THEN [res |-> Err(IoError("AlreadyExists")), st |-> st]
          ELSE IF w.res.t = "err" THEN [res |-> Err(w.res.e), st |-> st]
          ELSE [res |-> Ok(ServerResponse("script written!", JNull)), st |-> w.st]
  ELSE [res |-> Err(err_msg(<<"too many scripts, can't save!">>)), st |-> st]

\* save_script writing before it tests the count
SaveCountedWriteFirst(st, fc, name, script) ==
  LET w == write_string(st, ScriptPath(name), script)
  IN IF w.res.t = "err" THEN [res |-> Err(w.res.e), st |-> st]
     ELSE IF fc < MaxScripts
       THEN [res |-> Ok(ServerResponse("script written!", JNull)), st |-> w.st]
     ELSE [res |-> Err(err_msg(<<"too many scripts, can't save!">>)), st |-> w.st]

\* save_script from its test of the count fc on
SaveCounted(st, fc, name, script) ==
  IF fc < MaxScripts
  THEN LET w == write_string(st, ScriptPath(name), script)
       IN IF w.res.t = "err" THEN [res |-> Err(w.res.e), st |-> st]
          ELSE [res |-> Ok(ServerResponse("script written!", JNull)), st |-> w.st]
  ELSE [res |-> Err(err_msg(<<"too many scripts, can't save!">>)), st |-> st]

save_script(st, name, script) ==
  LET fc == read_dir_count(st)
  IN IF fc.t = "err" THEN [res |-> Err(fc.e), st |-> st]
     ELSE SaveCounted(st, fc.x, name, script)

\* Path::file_stem of an entry's name
file_stem(key) ==
  LET dots == {i \in 1..Len(key) : key[i] = "."}
      lastDot == IF dots = {} THEN 0 ELSE CHOOSE i \in dots : \A j \in dots : j <= i
  IN IF lastDot <= 1 THEN key ELSE SubSeq(key, 1, lastDot - 1)

\* a byte that is no part of any UTF-8 text
BadByte == "<ff>"

\* OsStr::to_str: the text of a name, None when the name is no Unicode
to_str(os) ==
  IF \E i \in DOMAIN os : os[i] = BadByte THEN None ELSE Some(os)

\* the names script_list pushes, stopping at the first item read_dir fails on
RECURSIVE StemsUntilError(_)
StemsUntilError(items) ==
  IF items = <<>> \/ Head(items).t = "err" THEN <<>>
  ELSE (IF to_str(file_stem(Head(items).x)) # None
        THEN <<file_stem(Head(items).x)>> ELSE <<>>)
       \o StemsUntilError(Tail(items))

\* the names script_list pushes for the items `items` of the directory iterator
RECURSIVE Stems(_)
Stems(items) ==
  IF items = <<>> THEN <<>>
  ELSE (IF Head(items).t = "ok" /\ to_str(file_stem(Head(items).x)) # None
        THEN <<to_str(file_stem(Head(items).x)).x>> ELSE <<>>)
       \o Stems(Tail(items))

\* script_list answering the empty list when scripts/ is no directory
script_list_lenient(st, items) ==
  IF st.dirKind = "dir"
  THEN Ok([names |-> Stems(items), more |-> st.nfill])
  ELSE Ok([names |-> <<>>, more |-> 0])

\* script_list, when read_dir yields `items` before the entries s1 .. s<nfill>
script_list(st, items) ==
  IF st.dirKind = "dir"
  THEN Ok([names |-> Stems(items), more |-> st.nfill])
  ELSE Err(err_msg(<<"scripts/ is not a directory!">>))

(***************************************************************************)
(* The public dispatcher.                                                  *)
(***************************************************************************)
PublicMessage(what, data) == [what |-> what, data |-> data]

\* from_value with the script defaulting to the empty text
SaveScript_from_value_default(data) ==
  IF data.j # "obj" THEN Err(JsonError("InvalidType"))
  ELSE IF "name" \in DOMAIN data.f /\ data.f["name"].j # "str"
    THEN Err(JsonError("InvalidType"))
  ELSE IF "script" \in DOMAIN data.f /\ data.f["script"].j # "str"
    THEN Err(JsonError("InvalidType"))
  ELSE IF "name" \notin DOMAIN data.f THEN Err(JsonError("MissingFieldName"))
  ELSE Ok([name |-> data.f["name"].s,
           script |-> IF "script" \in DOMAIN data.f THEN data.f["script"].s ELSE <<>>])

\* serde_json::from_value::<SaveScript>(data)
SaveScript_from_value(data) ==
  IF data.j # "obj" THEN Err(JsonError("InvalidType"))
  ELSE IF "name" \in DOMAIN data.f /\ data.f["name"].j # "str"
    THEN Err(JsonError("InvalidType"))
  ELSE IF "script" \in DOMAIN data.f /\ data.f["script"].j # "str"
    THEN Err(JsonError("InvalidType"))
  ELSE IF "name" \notin DOMAIN data.f THEN Err(JsonError("MissingFieldName"))
  ELSE IF "script" \notin DOMAIN data.f THEN Err(JsonError("MissingFieldScript"))
  ELSE Ok([name |-> data.f["name"].s, script |-> data.f["script"].s])

NoCall == [op |-> "none"]
LoadCall(name) == [op |-> "load_script", name |-> name]
SaveCall(name, script) == [op |-> "save_script", name |-> name, script |-> script]
ListCall(items) == [op |-> "script_list", items |-> items]

\* Result<ServerResponse, Error>::map(Some)
MapSome(r) == IF r.t = "ok" THEN Ok(Some(r.x)) ELSE r

\* the missing payload answered with no response
NoScriptSpecifiedNone == Ok(None)

\* the missing payload reported as a failure
NoScriptSpecifiedFails == Err(err_msg(<<"no script specified!">>))

NoScriptSpecified == Ok(Some(ServerResponse("no script specified!", JNull)))

\* the error for an unknown tag, without the tag
InvalidWhatUntagged(wat) == Err(err_msg(<<"invalid 'what' code">>))

InvalidWhat(wat) == Err(err_msg(<<"invalid 'what' code:'", wat, "'">>))

\* serde_json::to_value of the list of names
ListToValue(l) == JArr([i \in DOMAIN l.names |-> JStr(l.names[i])], l.more)

\* process_public_json(ip, msg) on the store st, when read_dir yields `items`:
\* [res: the result, st: the store afterwards, call: the store function called]
process_public_json(st, msg, items) ==
  CASE msg.what = "getscript" ->
         IF msg.data = None THEN [res |-> NoScriptSpecified, st |-> st, call |-> NoCall]
         ELSE LET name == to_string(msg.data.x)
              IN [res |-> MapSome(load_script(st, name)), st |-> st,
                  call |-> LoadCall(name)]
    [] msg.what = "savescript" ->
         IF msg.data = None THEN [res |-> NoScriptSpecified, st |-> st, call |-> NoCall]
         ELSE LET blah == SaveScript_from_value(msg.data.x)
              IN IF blah.t = "err" THEN [res |-> Err(blah.e), st |-> st, call |-> NoCall]
                 ELSE LET o == save_script(st, blah.x.name, blah.x.script)
                      IN [res |-> MapSome(o.res), st |-> o.st,
                          call |-> SaveCall(blah.x.name, blah.x.script)]
    [] msg.what = "getscriptlist" ->
         LET l == script_list(st, items)
         IN IF l.t = "err" THEN [res |-> Err(l.e), st |-> st, call |-> ListCall(items)]
            ELSE [res |-> Ok(Some(ServerResponse("scriptlist", ListToValue(l.x)))),
                  st |-> st, call |-> ListCall(items)]
    [] OTHER ->
         [res |-> InvalidWhat(msg.what), st |-> st, call |-> NoCall]

(***************************************************************************)
(* The requests of the model.                                              *)
(***************************************************************************)
\* how many entries below the capacity a run may begin with
Slack == 1
\* how many saves succeed in a run of Spec
MaxSaves == 3

NameA == <<"a">>
NameQuotedA == <<"\"", "a", "\"">>
NameDotted == <<"a", ".", "b">>
NameUp == <<".", ".", "/", "a">>
NameHere == <<".", "/", "a">>
NameSub == <<"b", "/", "a">>
Names == {NameA, NameQuotedA, NameDotted, NameUp, NameHere, NameSub}

ScriptOne == <<" ", "1">>
ScriptSum == <<"1", "+", "1">>
Scripts == {ScriptOne, ScriptSum}

SaveData(name, script) ==
  JObj([k \in {"name", "script"} |-> IF k = "name" THEN JStr(name) ELSE JStr(script)])

\* a savescript payload without its script
NameOnly == JObj([k \in {"name"} |-> JStr(NameA)])

Present(values) == {Some(v) : v \in values}

GetData == {None} \cup Present({JStr(NameA), JNull, SaveData(NameA, ScriptOne)})

SaveDataValues == {SaveData(n, s) : n \in Names, s \in Scripts}
SaveShapes == {None} \cup Present(SaveDataValues \cup {JStr(NameA), JNull, NameOnly})

ListData == {None} \cup Present({JNull})

OtherWhats == {"bogus", "GetScript", ""}
OtherData == {None} \cup Present({JStr(NameA)})

\* how many entries read_dir may fail to read in one listing
MaxReadErrors == 1

\* an entry whose name is no Unicode, put into scripts/ by other means
NameRaw == <<BadByte>>

\* the orders in which read_dir may yield the named entries of the store
ReadDirs(st) ==
  LET S == DOMAIN st.entries
  IN {[i \in DOMAIN f |-> Ok(f[i])] :
        f \in {g \in [1..Cardinality(S) -> S] : \A i, j \in DOMAIN g : g[i] = g[j] => i = j}}

\* What read_dir may yield when it fails on some entries: every entry once,
\* in any order, as Ok(name) or, for at most MaxReadErrors of them, as Err.
ReadDirsFailing(st) ==
  LET failing(n) == {F \in SUBSET (1..n) : Cardinality(F) <= MaxReadErrors}
  IN {[i \in DOMAIN f |-> IF i \in F THEN Err(IoError("Other")) ELSE f[i]] :
        f \in ReadDirs(st), F \in failing(Cardinality(DOMAIN st.entries))}

(***************************************************************************)
(* Sequential execution: one dispatch runs to completion before the next.  *)
(***************************************************************************)
\* how many callers dispatch at the same time
NumCallers == 2
Callers == 1..NumCallers

NoLast == [what |-> "", data |-> None, call |-> NoCall, res |-> None]

Fresh(kind, n) ==
  /\ dirKind = kind
  /\ entries = <<>>
  /\ nfill = n
  /\ outside = <<>>
  /\ last = NoLast
  /\ count0 = n
  /\ saved = {}
  /\ nsaved = 0
  /\ lastSave = None
  /\ pc = [c \in Callers |-> "idle"]
  /\ req = [c \in Callers |-> None]

\* scripts/ holds one entry, whose name is no Unicode
FreshRaw ==
  /\ dirKind = "dir"
  /\ entries = [k \in {NameRaw} |-> FillText]
  /\ nfill = 0
  /\ outside = <<>>
  /\ last = NoLast
  /\ count0 = 1
  /\ saved = {}
  /\ nsaved = 0
  /\ lastSave = None
  /\ pc = [c \in Callers |-> "idle"]
  /\ req = [c \in Callers |-> None]

Init ==
  \/ \E n \in {0} \cup ((MaxScripts - Slack)..(MaxScripts + 1)) : Fresh("dir", n)
  \/ \E kind \in {"absent", "file"} : Fresh(kind, 0)

\* the variables after a call that left the store st and returned res
Returned(st, msg, call, res) ==
  LET wrote == call.op = "save_script" /\ res.t = "ok"
  IN /\ dirKind' = st.dirKind
     /\ entries' = st.entries
     /\ nfill' = st.nfill
     /\ outside' = st.outside
     /\ last' = [what |-> msg.what, data |-> msg.data, call |-> call, res |-> res]
     /\ saved' = IF wrote /\ FillIndex(call.name) = 0 THEN saved \cup {call.name}
                 ELSE saved
     /\ nsaved' = IF wrote THEN nsaved + 1 ELSE nsaved
     /\ lastSave' = IF wrote
                    THEN Some([name |-> call.name, script |-> call.script,
                               replaced |-> load_string(Store, ScriptPath(call.name))])
                    ELSE lastSave
     /\ UNCHANGED count0

Dispatch(msg, items) ==
  LET o == process_public_json(Store, msg, items)
  IN /\ (o.call.op = "save_script" /\ o.res.t = "ok") => nsaved < MaxSaves
     /\ Returned(o.st, msg, o.call, o.res)
     /\ UNCHANGED <<pc, req>>

\* what read_dir yields matters to getscriptlist alone
AnyOrder == <<>>

GetScript == \E d \in GetData : Dispatch(PublicMessage("getscript", d), AnyOrder)

SaveScript == \E d \in SaveShapes : Dispatch(PublicMessage("savescript", d), AnyOrder)

GetScriptList ==
  \E d \in ListData, items \in ReadDirs(Store) :
    Dispatch(PublicMessage("getscriptlist", d), items)

OtherWhat ==
  \E w \in OtherWhats, d \in OtherData : Dispatch(PublicMessage(w, d), AnyOrder)

Next == GetScript \/ SaveScript \/ GetScriptList \/ OtherWhat

Spec == Init /\ [][Next]_vars

(***************************************************************************)
(* Concurrent savescript dispatches: a caller's count of the directory     *)
(* (line 49) and its test and write (lines 50 to 62) are separate steps.   *)
(***************************************************************************)
InFlight == {c \in Callers : pc[c] = "counted"}

\* the names the concurrent callers save, all with the script " 1"
ConcNames == {NameA, NameQuotedA, NameDotted, NameUp}

\* caller c enters save_script(name, script) and counts the entries
StartSave(c) ==
  \E name \in ConcNames, script \in {ScriptOne} :
    LET fc == read_dir_count(Store)
        msg == PublicMessage("savescript", Some(SaveData(name, script)))
    IN /\ pc[c] = "idle"
       /\ nsaved + Cardinality(InFlight) < MaxSaves
       /\ IF fc.t = "err"
          THEN /\ Returned(Store, msg, SaveCall(name, script), Err(fc.e))
               /\ UNCHANGED <<pc, req>>
          ELSE /\ pc' = [pc EXCEPT ![c] = "counted"]
               /\ req' = [req EXCEPT ![c] =
                            Some([name |-> name, script |-> script, fc |-> fc.x])]
               /\ UNCHANGED <<dirKind, entries, nfill, outside, last, count0,
                              saved, nsaved, lastSave>>

\* caller c tests the count it took, writes or refuses, and returns
FinishSave(c) ==
  /\ pc[c] = "counted"
  /\ LET r == req[c].x
         o == SaveCounted(Store, r.fc, r.name, r.script)
         msg == PublicMessage("savescript", Some(SaveData(r.name, r.script)))
     IN Returned(o.st, msg, SaveCall(r.name, r.script), MapSome(o.res))
  /\ pc' = [pc EXCEPT ![c] = "idle"]
  /\ req' = [req EXCEPT ![c] = None]

\* a load of "a" between the steps of the callers
ConcLoad == Dispatch(PublicMessage("getscript", Some(JStr(NameA))), AnyOrder)

\* a listing between the steps of the callers
ConcList ==
  \E items \in ReadDirs(Store) : Dispatch(PublicMessage("getscriptlist", None), items)

ConcNext ==
  \/ \E c \in Callers : StartSave(c) \/ FinishSave(c)
  \/ ConcLoad
  \/ ConcList

ConcSpec == Init /\ [][ConcNext]_vars

(***************************************************************************)
(* Filling an empty store: saves of pairwise distinct names, s1, s2, ...   *)
(* and the names of FillNames, one dispatch at a time.                     *)
(***************************************************************************)
FillNames == {NameA, NameUp, NameHere}

FillInit == Fresh("dir", 0)

SaveFill(name, script) ==
  LET msg == PublicMessage("savescript", Some(SaveData(name, script)))
      o == process_public_json(Store, msg, AnyOrder)
  IN /\ o.res.t = "ok" => nsaved <= MaxScripts
     /\ Returned(o.st, msg, o.call, o.res)
     /\ UNCHANGED <<pc, req>>

SaveNumbered == SaveFill(FillName(nfill + 1), FillText)

SaveNamed == \E name \in FillNames \ saved : SaveFill(name, ScriptOne)

FillNext == SaveNumbered \/ SaveNamed

FillSpec == FillInit /\ [][FillNext]_vars

(***************************************************************************)
(* Listing a store that holds entries list cannot name: saves of a few     *)
(* names, and listings in which read_dir fails on some entries, of a store *)
(* that starts empty or with an entry whose name is no Unicode.            *)
(***************************************************************************)
\* how many saves succeed before the listings
MaxListSaves == 2

ListInit == Fresh("dir", 0) \/ FreshRaw

ListSave ==
  \E name \in Names :
    /\ nsaved < MaxListSaves
    /\ Dispatch(PublicMessage("savescript", Some(SaveData(name, ScriptOne))), AnyOrder)

ListFailing ==
  \E items \in ReadDirsFailing(Store) :
    Dispatch(PublicMessage("getscriptlist", None), items)

ListNext == ListSave \/ ListFailing

ListSpec == ListInit /\ [][ListNext]_vars

(***************************************************************************)
(* Properties.                                                             *)
(***************************************************************************)
TooManyScripts == Err([k |-> "msg", text |-> <<"too many scripts, can't save!">>])
ScriptWritten == Ok(Some([what |-> "script written!", content |-> JNull]))

StoreUnchanged ==
  /\ dirKind' = dirKind
  /\ entries' = entries
  /\ nfill' = nfill
  /\ outside' = outside

\* C1: in a sequential run that begins with at most 500 entries in scripts/,
\* scripts/ never holds more than 500 entries, whatever is dispatched.
C1_CapacityKept == count0 <= 500 => Count(Store) <= 500

\* a run that began below the capacity filled the directory and had a save turned away
C1_Witness ==
  /\ count0 < 500
  /\ Count(Store) = 500
  /\ last.call.op = "save_script"
  /\ last.res = TooManyScripts

\* C2: a save called while scripts/ holds 500 entries or more, for a new name or
\* a stored one, fails with "too many scripts, can't save!" and writes nothing:
\* the entries, their number and every content stay as they were.
C2_FullStoreRejects ==
  [][(dirKind = "dir" /\ Count(Store) >= 500 /\ last'.call.op = "save_script")
       => (last'.res = TooManyScripts /\ StoreUnchanged)]_vars

\* a save of a name that is already stored was turned away by the full store
C2_Witness ==
  /\ Count(Store) >= 500
  /\ last.call.op = "save_script"
  /\ last.call.name \in DOMAIN entries
  /\ last.call.script # entries[last.call.name]
  /\ last.res = TooManyScripts

\* C3: with the count and the write as separate steps, scripts/ can pass 500
\* entries, and only so: the step that takes it past 500 is the write of a save
\* that read a count below 500 which another save's write has since outdated.
C3_OvershootIsStaleWrite ==
  [][(Count(Store) <= 500 /\ Count(Store') > 500)
       => \E c \in Callers :
            /\ pc[c] = "counted" /\ pc'[c] = "idle"
            /\ req[c].x.fc < 500
            /\ req[c].x.fc < Count(Store)
            /\ last'.res = ScriptWritten]_vars

\* from 499 entries, two saves of distinct new names left more than 500
C3_Witness ==
  /\ count0 = 499
  /\ Count(Store) > 500
  /\ Cardinality(saved) >= 2
  /\ saved \subseteq DOMAIN entries

\* the latest successful save was of `name`, and no save has succeeded since
SavedLast(name) == lastSave.t = "some" /\ lastSave.x.name = name

\* what a load of the text `script` returns: its parsed value, or the parse error
Loaded(script) ==
  LET v == from_str(script)
  IN IF v.t = "ok" THEN Ok(Some([what |-> "script", content |-> v.x])) ELSE Err(v.e)

C5_GetFindsSaved ==
  (last.what = "getscript" /\ lastSave.t = "some"
     /\ last.data = Some(JStr(lastSave.x.name)))
    => last.res = Loaded(lastSave.x.script)

NoScript == Ok(Some([what |-> "no script specified!", content |-> JNull]))

\* the step is a save of a name right after a successful save of the same
\* name with another script
SecondSave ==
  /\ last.call.op = "save_script" /\ last.res = ScriptWritten
  /\ last'.call.op = "save_script"
  /\ last'.call.name = last.call.name
  /\ last'.call.script # last.call.script

\* the second save replaced the script: a load of the name reads the second
\* script, and scripts/ holds as many entries as after the first save
Overwrote ==
  /\ last'.res = ScriptWritten
  /\ load_string(Store', ScriptPath(last'.call.name)) = Ok(last'.call.script)
  /\ Count(Store') = Count(Store)

\* C6 as claimed: whenever a first save of a name succeeds, a second save of
\* that name with another script overwrites it.
C6_SecondSaveOverwrites == [][SecondSave => Overwrote]_vars

\* C6, amended: when the first save leaves fewer than 500 entries the second
\* save overwrites the script and the number of entries stays; when it leaves
\* 500 or more the second save is refused and the first script stays.
C6_SecondSaveOverwritesBelowCap ==
  [][SecondSave =>
       IF Count(Store) < 500 THEN Overwrote
       ELSE /\ last'.res = TooManyScripts
            /\ load_string(Store', ScriptPath(last.call.name)) = Ok(last.call.script)
            /\ Count(Store') = Count(Store)]_vars

\* "a" was saved twice and holds the second script, which differs from the first
C6_Witness ==
  /\ last.call.op = "save_script" /\ last.res = ScriptWritten
  /\ saved = {NameA} /\ nsaved = 2
  /\ lastSave.x.replaced.t = "ok"
  /\ lastSave.x.replaced.x # lastSave.x.script
  /\ entries[NameA] = lastSave.x.script
  /\ Count(Store) = count0 + 1

\* the names a successful getscriptlist returned
Listed == last.res.x.x.content.a

\* C7: beginning with an empty scripts/, after N successful saves of N distinct
\* names, whatever their characters, list returns exactly N names, no name
\* twice, each one of the saved names.
C7_ListIsSavedNames ==
  (/\ count0 = 0 /\ dirKind = "dir"
   /\ nsaved = Cardinality(saved)
   /\ last.call.op = "script_list" /\ last.res.t = "ok")
    => /\ Len(Listed) + last.res.x.x.content.more = nsaved
       /\ \A i, j \in DOMAIN Listed : Listed[i] = Listed[j] => i = j
       /\ \A i \in DOMAIN Listed : Listed[i].s \in saved

\* C9: a getscript or savescript message without data is answered with the
\* success "no script specified!" and null content, in every store state, and
\* the store stays as it was.
C9_MissingDataIsSuccess ==
  [][(last'.what \in {"getscript", "savescript"} /\ last'.data = None)
       => (last'.res = NoScript /\ StoreUnchanged)]_vars

\* a savescript without data was answered so by a full store holding a script
C9_Witness ==
  /\ last.what = "savescript" /\ last.data = None
  /\ last.res = NoScript
  /\ Count(Store) >= 500
  /\ entries # <<>>

\* C10: a message whose what is none of getscript, savescript, getscriptlist
\* fails with the invalid-what error that carries the tag, with data or
\* without, and the store stays as it was.
C10_UnknownWhatFails ==
  [][(last' # last /\ last'.what \notin {"getscript", "savescript", "getscriptlist"})
       => /\ last'.res = Err([k |-> "msg",
                              text |-> <<"invalid 'what' code:'", last'.what, "'">>])
          /\ StoreUnchanged]_vars

\* "GetScript" with data was refused by a store that holds a script
C10_Witness ==
  /\ last.what = "GetScript" /\ last.data # None
  /\ last.res = Err([k |-> "msg", text |-> <<"invalid 'what' code:'", "GetScript", "'">>])
  /\ entries # <<>>

\* C8: beginning with an empty store and saving pairwise distinct names,
\* whatever their characters, the 500th successful save fills the store, and a
\* save attempted after 500 have succeeded is refused with the capacity error.
C8_FullAfter500Saves ==
  /\ nsaved <= 500
  /\ nsaved = 500 => Count(Store) = 500
  /\ (nsaved = 500 /\ last.call.op = "save_script" /\ last.res # ScriptWritten)
       => last.res = TooManyScripts

\* C11: a getscript that names a stored script whose text is no JSON ("1+1")
\* fails with the parse error and returns no response; savescript stores such a
\* text unchecked, so the save succeeds and every later getscript of it fails.
C11_BadScriptFailsGet ==
  (/\ last.call.op = "load_script"
   /\ load_string(Store, <<"s", "c", "r", "i", "p", "t", "s", "/">> \o last.call.name)
        = Ok(<<"1", "+", "1">>))
    => last.res = Err([k |-> "json", kind |-> "TrailingCharacters"])

\* "1+1" was saved with success, and the getscript that names it failed to parse it
C11_Witness ==
  /\ lastSave.t = "some"
  /\ lastSave.x.script = <<"1", "+", "1">>
  /\ last.what = "getscript"
  /\ last.call = [op |-> "load_script", name |-> lastSave.x.name]
  /\ last.res = Err([k |-> "json", kind |-> "TrailingCharacters"])

NotADirectory == Err([k |-> "msg", text |-> <<"scripts/ is not a directory!">>])

\* C12: when scripts/ does not exist or is no directory, list fails with
\* "scripts/ is not a directory!" and getscriptlist returns that failure, not a
\* "scriptlist" response.
C12_ListNeedsDirectory ==
  (last.what = "getscriptlist" /\ dirKind # "dir") => last.res = NotADirectory

\* getscriptlist was dispatched where scripts/ does not exist, and failed so
C12_Witness ==
  /\ dirKind = "absent"
  /\ last.what = "getscriptlist"
  /\ last.call.op = "script_list"
  /\ last.res = NotADirectory

\* C13: only a successful savescript changes the store: a getscript, a
\* getscriptlist, and any dispatch that ends in an error or in "no script
\* specified!" leave the stored names and every content as they were.
C13_OnlySaveWrites ==
  [][~StoreUnchanged => (last'.what = "savescript" /\ last'.res = ScriptWritten)]_vars

\* a getscript read a stored script and the store still holds what was saved
C13_Witness ==
  /\ last.what = "getscript"
  /\ last.res.t = "ok"
  /\ lastSave.t = "some"
  /\ load_string(Store, ScriptPath(lastSave.x.name)) = Ok(lastSave.x.script)
  /\ Count(Store) = count0 + 1

\* the savescript payload has the SaveScript shape: name and script, both strings
HasSaveShape(v) ==
  /\ v.j = "obj"
  /\ {"name", "script"} \subseteq DOMAIN v.f
  /\ v.f["name"].j = "str" /\ v.f["script"].j = "str"

\* C15: a savescript whose data is present but has not the SaveScript shape
\* fails with the decode error before the store is touched: save_script is not
\* called, nothing is counted or written, and the error is the decode error
\* also when the store holds 500 entries.
C15_BadShapeFailsFirst ==
  [][(last'.what = "savescript" /\ last'.data # None /\ ~HasSaveShape(last'.data.x))
       => /\ last'.res.t = "err" /\ last'.res.e.k = "json"
          /\ last'.call = [op |-> "none"]
          /\ StoreUnchanged]_vars

\* a payload without script was refused with the decode error by a full store
C15_Witness ==
  /\ Count(Store) >= 500
  /\ last.what = "savescript"
  /\ last.data = Some(NameOnly)
  /\ last.res = Err([k |-> "json", kind |-> "MissingFieldScript"])

\* C18: every dispatch ends in an error or in a success that carries a
\* response: process_public_json never returns Ok(None).
C18_NeverOkNone ==
  last # NoLast
    => \/ last.res.t = "err"
       \/ /\ last.res.t = "ok"
          /\ last.res.x.t = "some"
          /\ DOMAIN last.res.x.x = {"what", "content"}

\* a getscript without data returned a response, in a store where scripts/ is a file
C18_Witness ==
  /\ dirKind = "file"
  /\ last.what = "getscript" /\ last.data = None
  /\ last.res.t = "ok" /\ last.res.x.t = "some"

\* what read_dir yielded to the last script_list
Items == last.call.items

\* the items that name a readable entry whose file stem is Unicode
Kept == {i \in DOMAIN Items : Items[i].t = "ok" /\ to_str(file_stem(Items[i].x)) # None}

\* C16: when scripts/ is a directory, list succeeds whatever the entries are:
\* it returns at most one name per entry, skips an entry that cannot be read
\* or whose file stem is no text, and returns the file stem of every other
\* entry.
C16_ListSkipsBadEntries ==
  (last.call.op = "script_list" /\ dirKind = "dir")
    => /\ last.res.t = "ok"
       /\ last.res.x.x.what = "scriptlist"
       /\ Len(Items) = Cardinality(DOMAIN entries)
       /\ Len(Listed) = Cardinality(Kept)
       /\ Len(Listed) <= Len(Items)
       /\ \A i \in Kept :
            Listed[Cardinality({j \in Kept : j <= i})] = JStr(file_stem(Items[i].x))

\* a listing skipped an unreadable entry and the entry whose name is no
\* Unicode, and returned the stem "a" of the entry "a.b"
C16_Witness ==
  /\ last.call.op = "script_list"
  /\ last.res.t = "ok"
  /\ \E i \in DOMAIN Items : Items[i].t = "err"
  /\ \E i \in DOMAIN Items : Items[i] = Ok(NameRaw)
  /\ \E i \in DOMAIN Items : Items[i] = Ok(NameDotted)
  /\ Listed = <<JStr(NameA)>>

\* C14: the full state is permanent.  No step of any operation, in sequence or
\* interleaved, lowers the number of entries of scripts/; a save that counts
\* the entries while there are 500 or more reads 500 or more; and a save that
\* read 500 or more fails with "too many scripts, can't save!" and writes
\* nothing.
C14_FullIsPermanent ==
  [][/\ Count(Store') >= Count(Store)
     /\ DOMAIN entries \subseteq DOMAIN entries'
     /\ \A c \in Callers :
          (pc[c] = "idle" /\ pc'[c] = "counted" /\ Count(Store) >= 500)
            => req'[c].x.fc >= 500
     /\ \A c \in Callers :
          (pc[c] = "counted" /\ pc'[c] = "idle" /\ req[c].x.fc >= 500)
            => (last'.res = TooManyScripts /\ StoreUnchanged)]_vars

\* two interleaved saves took scripts/ from 499 to 501 entries, and a save
\* that counted them afterwards was turned away
C14_Witness ==
  /\ count0 = 499
  /\ Count(Store) >= 501
  /\ pc = [c \in Callers |-> "idle"]
  /\ last.call.op = "save_script"
  /\ last.res = TooManyScripts

\* C17: with NumCallers callers whose count and write are separate steps, from
\* at most 500 entries, scripts/ never holds more than 499 + NumCallers: the
\* entries and the callers in flight that read a count below 500 are together
\* never more than that.
C17_OvershootBounded ==
  count0 <= 500
    => /\ Count(Store) <= 499 + NumCallers
       /\ Count(Store) + Cardinality({c \in InFlight : req[c].x.fc < 500})
            <= 499 + NumCallers

\* every caller read 499 and wrote a name of its own: 499 + NumCallers entries
C17_Witness ==
  /\ count0 = 499
  /\ Count(Store) = 499 + NumCallers
  /\ InFlight = {}
  /\ nsaved = NumCallers
  /\ last.res = ScriptWritten

====
